---------------------------- MODULE Spec2Model ----------------------------
(***************************************************************************)
(* A model of grplayground's per-frame systems (src/src/main.rs): the unit *)
(* converters, the camera-axis builder get_cam_axis, the three resources   *)
(* WindowData / CamData / SpacetimeParams and the five Update systems that *)
(* read and write them.                                                    *)
(*                                                                         *)
(* Numbers.  Two number models are used.                                   *)
(*   - Vec3 / Quat components are exact reals of the form                  *)
(*     sum of (n/d)*sqrt(k), k squarefree ("surds"); every operation of    *)
(*     glam that get_cam_axis calls is computed on them by glam's own      *)
(*     formula.  f32 rounding of those components is not modelled.         *)
(*   - f32 / f64 scalars of the unit converters are decimal floating       *)
(*     point numbers with a bounded number of significant digits, rounded  *)
(*     to nearest-even after every operation, with overflow to infinity,   *)
(*     underflow to zero, and NaN.                                         *)
(***************************************************************************)
EXTENDS Integers, Sequences, FiniteSets, TLC

(***************************************************************************)
(* Exact arithmetic on surds.  A number is a set of terms                  *)
(* [n, d, k] = (n/d)*sqrt(k) with n # 0, d > 0, gcd(n,d) = 1, k squarefree *)
(* and no two terms sharing k; {} is zero.                                 *)
(***************************************************************************)
Abs(n) == IF n < 0 THEN -n ELSE n

RECURSIVE GcdNat(_, _)
GcdNat(a, b) == IF b = 0 THEN a ELSE GcdNat(b, a % b)

Gcd(a, b) == GcdNat(Abs(a), Abs(b))

\* the term (n/d)*sqrt(k) in lowest terms (n # 0, d # 0)
Term(n, d, k) ==
    LET g == Gcd(n, d)
        s == IF d < 0 THEN -1 ELSE 1
    IN  [n |-> s * (n \div g), d |-> s * (d \div g), k |-> k]

SZero == {}

\* the rational n/d as a number
SRat(n, d) == IF n = 0 THEN SZero ELSE {Term(n, d, 1)}

SInt(n) == SRat(n, 1)

SNeg(x) == {[t EXCEPT !.n = -t.n] : t \in x}

\* x + t for one term t
SAddTerm(x, t) ==
    IF \E u \in x : u.k = t.k
      THEN LET u == CHOOSE u \in x : u.k = t.k
               n == u.n * t.d + t.n * u.d
           IN  IF n = 0 THEN x \ {u}
               ELSE (x \ {u}) \cup {Term(n, u.d * t.d, t.k)}
      ELSE x \cup {t}

RECURSIVE SAdd(_, _)
SAdd(x, y) ==
    IF y = {} THEN x
    ELSE LET t == CHOOSE t \in y : TRUE
         IN  SAdd(SAddTerm(x, t), y \ {t})

SSub(x, y) == SAdd(x, SNeg(y))

\* sqrt(a)*sqrt(b) = g*sqrt((a/g)*(b/g)) for squarefree a, b, g = gcd(a,b)
STermMul(t, u) ==
    LET g == Gcd(t.k, u.k)
    IN  Term(t.n * u.n * g, t.d * u.d, (t.k \div g) * (u.k \div g))

RECURSIVE SMulAcc(_, _, _)
SMulAcc(acc, x, y) ==
    IF x = {} THEN acc
    ELSE LET t == CHOOSE t \in x : TRUE
         IN  SMulAcc(SAdd(acc, {STermMul(t, u) : u \in y}), x \ {t}, y)

SMul(x, y) == SMulAcc(SZero, x, y)

\* the largest c >= 1 with c*c dividing n, searched from i upwards
RECURSIVE SquarePart(_, _)
SquarePart(n, i) ==
    IF i * i > n THEN 1
    ELSE IF n % (i * i) = 0 THEN i * SquarePart(n \div (i * i), i)
    ELSE SquarePart(n, i + 1)

SIsRational(x) == \A t \in x : t.k = 1

\* sqrt of a non-negative rational number x
SSqrt(x) ==
    IF x = SZero THEN SZero
    ELSE LET t == CHOOSE t \in x : t.k = 1 /\ t.n > 0 /\ x = {t}
             p == t.n * t.d
             c == SquarePart(p, 2)
         IN  {Term(c, t.d, p \div (c * c))}

\* 1/x for a one-term x # 0:  1/((n/d)*sqrt(k)) = (d/(n*k))*sqrt(k)
SRecip(x) ==
    LET t == CHOOSE t \in x : x = {t}
    IN  {Term(t.d, t.n * t.k, t.k)}


(***************************************************************************)
(* glam: Vec3 and Quat, as far as get_cam_axis uses them.                  *)
(***************************************************************************)
vec3(x, y, z) == [x |-> x, y |-> y, z |-> z]

\* a vector of integer components
ivec3(x, y, z) == vec3(SInt(x), SInt(y), SInt(z))

Vec3ZERO == vec3(SZero, SZero, SZero)

Vec3Y == vec3(SZero, SInt(1), SZero)

VSub(a, b) == vec3(SSub(a.x, b.x), SSub(a.y, b.y), SSub(a.z, b.z))

VAdd(a, b) == vec3(SAdd(a.x, b.x), SAdd(a.y, b.y), SAdd(a.z, b.z))

\* Vec3 * f32
VScale(a, s) == vec3(SMul(a.x, s), SMul(a.y, s), SMul(a.z, s))

VDot(a, b) == SAdd(SAdd(SMul(a.x, b.x), SMul(a.y, b.y)), SMul(a.z, b.z))

VCross(a, b) ==
    vec3(SSub(SMul(a.y, b.z), SMul(b.y, a.z)),
         SSub(SMul(a.z, b.x), SMul(b.z, a.x)),
         SSub(SMul(a.x, b.y), SMul(b.x, a.y)))

VLength(a) == SSqrt(VDot(a, a))

\* faulty variant of normalize_or_zero: a zero vector becomes the unit X vector
normalize_or_unit(a) ==
    LET len == VLength(a)
    IN  IF len = SZero THEN vec3(SInt(1), SZero, SZero) ELSE VScale(a, SRecip(len))

\* Vec3::normalize_or_zero: rcp = 1/length; self * rcp when rcp is finite and
\* positive, ZERO otherwise (a zero length gives rcp = +inf)
normalize_or_zero(a) ==
    LET len == VLength(a)
    IN  IF len = SZero THEN Vec3ZERO ELSE VScale(a, SRecip(len))

\* the two angles of get_cam_axis; sin_cos(angle * 0.5)
SinHalf(angle) ==
    CASE angle = "PI/2"  -> {Term(1, 2, 2)}
      [] angle = "-PI/2" -> {Term(-1, 2, 2)}

CosHalf(angle) ==
    CASE angle = "PI/2"  -> {Term(1, 2, 2)}
      [] angle = "-PI/2" -> {Term(1, 2, 2)}

\* Quat::from_axis_angle: (axis * sin(angle/2), cos(angle/2)); glam asserts
\* that axis is normalized only under its glam-assert features, which are off
\* by default, so a zero axis gives the non-unit quaternion (0, 0, 0, cos)
from_axis_angle(axis, angle) ==
    LET v == VScale(axis, SinHalf(angle))
    IN  [x |-> v.x, y |-> v.y, z |-> v.z, w |-> CosHalf(angle)]

\* faulty variant of mul_vec3: the cross-product term is left out
mul_vec3_no_cross(q, rhs) ==
    LET w  == q.w
        b  == vec3(q.x, q.y, q.z)
        b2 == VDot(b, b)
        two == SInt(2)
    IN  VAdd(VScale(rhs, SSub(SMul(w, w), b2)),
             VScale(b, SMul(VDot(rhs, b), two)))

\* Quat::mul_vec3
mul_vec3(q, rhs) ==
    LET w  == q.w
        b  == vec3(q.x, q.y, q.z)
        b2 == VDot(b, b)
        two == SInt(2)
    IN  VAdd(VAdd(VScale(rhs, SSub(SMul(w, w), b2)),
                  VScale(b, SMul(VDot(rhs, b), two))),
             VScale(VCross(b, rhs), SMul(w, two)))

\* get_cam_axis returns (cam_x, cam_y, cam_z) = (right, up, forward)
get_cam_axis(pos, target) ==
    LET cam_z == normalize_or_zero(VSub(target, pos))
        xz    == normalize_or_zero(vec3(cam_z.x, SZero, cam_z.z))
        cam_x == mul_vec3(from_axis_angle(Vec3Y, "-PI/2"), xz)
        cam_y == mul_vec3(from_axis_angle(cam_x, "PI/2"), cam_z)
    IN  <<cam_x, cam_y, cam_z>>

(***************************************************************************)
(* f32 / f64 scalars: decimal floating point.  A finite value is           *)
(* s * m * 10^e with s in {1,-1}, m >= 0 without trailing zeros (zero is   *)
(* m = 0, e = 0, signed); the others are the two infinities and NaN.  A    *)
(* format gives the significant digits kept and the decimal exponent range.*)
(***************************************************************************)
F32 == [dig |-> 3, emax |-> 38, emin |-> -45]

F64 == [dig |-> 4, emax |-> 308, emin |-> -324]

FFin(s, m, e) == [k |-> "fin", s |-> s, m |-> m, e |-> e]

FZero(s) == FFin(s, 0, 0)

FInf(s) == [k |-> "inf", s |-> s, m |-> 0, e |-> 0]

FNaN == [k |-> "nan", s |-> 1, m |-> 0, e |-> 0]

IsZero(a) == a.k = "fin" /\ a.m = 0

RECURSIVE Pow10(_)
Pow10(n) == IF n <= 0 THEN 1 ELSE 10 * Pow10(n - 1)

\* number of decimal digits of m >= 0 (0 has none)
RECURSIVE Digits(_)
Digits(m) == IF m = 0 THEN 0 ELSE 1 + Digits(m \div 10)

\* m * 10^e with the trailing zeros of m moved into e
RECURSIVE Canon(_, _, _)
Canon(s, m, e) ==
    IF m = 0 THEN FZero(s)
    ELSE IF m % 10 = 0 THEN Canon(s, m \div 10, e + 1)
    ELSE FFin(s, m, e)

\* s * (m * 10^e, or slightly more when sticky) rounded to the format:
\* nearest, ties to even; then overflow to infinity and underflow to zero.
\* (when sticky, m has more digits than the format keeps)
FRound(s, m, e, sticky, fmt) ==
    IF m = 0 THEN FZero(s)
    ELSE
      LET nd   == Digits(m)
          drop == IF nd > fmt.dig THEN nd - fmt.dig ELSE 0
          p    == Pow10(drop)
          q    == m \div p
          r    == m % p
          up   == drop > 0 /\ (2 * r > p \/ (2 * r = p /\ (sticky \/ q % 2 = 1)))
          c    == Canon(s, IF up THEN q + 1 ELSE q, e + drop)
          sci  == c.e + Digits(c.m) - 1
      IN  IF sci > fmt.emax THEN FInf(s)
          ELSE IF sci < fmt.emin THEN FZero(s)
          ELSE c

\* an integer literal or integer-valued input stored in the format
FInt(n, fmt) == FRound(IF n < 0 THEN -1 ELSE 1, Abs(n), 0, FALSE, fmt)

\* `x as f64` of an f32 is exact; `x as f32` of an f64 rounds
FCast(a, fmt) == IF a.k = "fin" THEN FRound(a.s, a.m, a.e, FALSE, fmt) ELSE a

FNeg(a) == IF a.k = "nan" THEN a ELSE [a EXCEPT !.s = -a.s]

FMul(a, b, fmt) ==
    IF a.k = "nan" \/ b.k = "nan" THEN FNaN
    ELSE IF (a.k = "inf" /\ IsZero(b)) \/ (IsZero(a) /\ b.k = "inf") THEN FNaN
    ELSE IF a.k = "inf" \/ b.k = "inf" THEN FInf(a.s * b.s)
    ELSE FRound(a.s * b.s, a.m * b.m, a.e + b.e, FALSE, fmt)

FDiv(a, b, fmt) ==
    IF a.k = "nan" \/ b.k = "nan" THEN FNaN
    ELSE IF (a.k = "inf" /\ b.k = "inf") \/ (IsZero(a) /\ IsZero(b)) THEN FNaN
    ELSE IF a.k = "inf" \/ IsZero(b) THEN FInf(a.s * b.s)
    ELSE IF b.k = "inf" \/ IsZero(a) THEN FZero(a.s * b.s)
    ELSE
      LET j   == 9 - Digits(a.m)
          num == a.m * Pow10(j)
      IN  FRound(a.s * b.s, num \div b.m, a.e - j - b.e, num % b.m # 0, fmt)

\* |a| < |b| for finite a, b
MagLess(a, b) ==
    IF b.m = 0 THEN FALSE
    ELSE IF a.m = 0 THEN TRUE
    ELSE
      LET na == Digits(a.m)
          nb == Digits(b.m)
      IN  IF a.e + na # b.e + nb THEN a.e + na < b.e + nb
          ELSE a.m * Pow10(9 - na) < b.m * Pow10(9 - nb)

\* IEEE ==, < and <= (false on NaN; -0 == +0)
FEq(a, b) ==
    /\ a.k # "nan" /\ b.k # "nan"
    /\ \/ IsZero(a) /\ IsZero(b)
       \/ a = b

FLt(a, b) ==
    /\ a.k # "nan" /\ b.k # "nan"
    /\ ~FEq(a, b)
    /\ IF a.s # b.s THEN a.s < b.s
       ELSE IF a.k = "inf" THEN a.s = -1
       ELSE IF b.k = "inf" THEN b.s = 1
       ELSE IF a.s = 1 THEN MagLess(a, b) ELSE MagLess(b, a)

FLe(a, b) == FEq(a, b) \/ FLt(a, b)

\* a + b
FAdd(a, b, fmt) ==
    IF a.k = "nan" \/ b.k = "nan" THEN FNaN
    ELSE IF a.k = "inf" /\ b.k = "inf" THEN (IF a.s = b.s THEN a ELSE FNaN)
    ELSE IF a.k = "inf" THEN a
    ELSE IF b.k = "inf" THEN b
    ELSE IF IsZero(a) /\ IsZero(b) THEN FZero(IF a.s = -1 /\ b.s = -1 THEN -1 ELSE 1)
    ELSE IF IsZero(a) THEN FRound(b.s, b.m, b.e, FALSE, fmt)
    ELSE IF IsZero(b) THEN FRound(a.s, a.m, a.e, FALSE, fmt)
    ELSE
      LET hi   == IF a.e >= b.e THEN a ELSE b
          lo   == IF a.e >= b.e THEN b ELSE a
          diff == hi.e - lo.e
      IN  IF diff >= 2 * fmt.dig - Digits(hi.m) + 1
            THEN hi   \* lo is below half a unit in the last place of hi
            ELSE LET sum == hi.s * hi.m * Pow10(diff) + lo.s * lo.m
                 IN  IF sum = 0 THEN FZero(1)
                     ELSE FRound(IF sum < 0 THEN -1 ELSE 1, Abs(sum), lo.e, FALSE, fmt)

FSub(a, b, fmt) == FAdd(a, FNeg(b), fmt)

\* floor(sqrt(n)) by bisection on lo..hi
RECURSIVE ISqrtIn(_, _, _)
ISqrtIn(n, lo, hi) ==
    IF lo >= hi THEN lo
    ELSE LET mid == (lo + hi + 1) \div 2
         IN  IF mid * mid <= n THEN ISqrtIn(n, mid, hi) ELSE ISqrtIn(n, lo, mid - 1)

\* the largest j in 0..4 with n * 100^j below 2 * 10^9
RECURSIVE SqrtScale(_, _)
SqrtScale(n, j) ==
    IF j = 0 \/ n <= 2000000000 \div Pow10(2 * j) THEN j ELSE SqrtScale(n, j - 1)

\* sqrt of an integer n >= 0, rounded to the format
FSqrtInt(n, fmt) ==
    IF n = 0 THEN FZero(1)
    ELSE LET j    == SqrtScale(n, 4)
             big  == n * Pow10(2 * j)
             root == ISqrtIn(big, 0, 46340)
         IN  FRound(1, root, -j, root * root # big, fmt)

(***************************************************************************)
(* The unit converters.                                                    *)
(***************************************************************************)
\* const NEWTON_CONSTANT: f32 = 6.67e-11
NEWTON_CONSTANT == FRound(1, 667, -13, FALSE, F32)

\* const LIGHT_SPEED: f32 = 299_792_458.
LIGHT_SPEED == FRound(1, 299792458, 0, FALSE, F32)

\* f32::powf(3.): the exact cube, rounded once
powf3(a, fmt) ==
    IF a.k = "fin" THEN FRound(a.s, a.m * a.m * a.m, 3 * a.e, FALSE, fmt) ELSE a

\* faulty variant of length_to_si: divides by the mass
length_to_si_div(val, mass) ==
    FDiv(FCast(FDiv(FMul(val, NEWTON_CONSTANT, F32),
                    FMul(LIGHT_SPEED, LIGHT_SPEED, F32), F32), F64),
         mass,
         F64)

\* mass * ((val * NEWTON_CONSTANT / (LIGHT_SPEED * LIGHT_SPEED)) as f64)
length_to_si(val, mass) ==
    FMul(mass,
         FCast(FDiv(FMul(val, NEWTON_CONSTANT, F32),
                    FMul(LIGHT_SPEED, LIGHT_SPEED, F32), F32), F64),
         F64)

\* (val * LIGHT_SPEED.powf(3.) / NEWTON_CONSTANT) as f64 / mass
time_to_geo(val, mass) ==
    FDiv(FCast(FDiv(FMul(val, powf3(LIGHT_SPEED, F32), F32), NEWTON_CONSTANT, F32), F64),
         mass,
         F64)

(***************************************************************************)
(* str::parse::<f64>.  A text is a sequence of one-character strings.      *)
(* Accepted: [+-] then inf | infinity | nan (any case), or digits with at  *)
(* most one '.', at least one digit, and an optional exponent e|E [+-]     *)
(* digits.  Anything else, the empty text and surrounding blanks included, *)
(* is an Err.                                                              *)
(***************************************************************************)
DigitChars == <<"0", "1", "2", "3", "4", "5", "6", "7", "8", "9">>

IsDigit(c) == \E i \in 1..10 : DigitChars[i] = c

DigitVal(c) == (CHOOSE i \in 1..10 : DigitChars[i] = c) - 1

\* ASCII lower case of the letters the special values use
ToLower(c) ==
    CASE c = "I" -> "i" [] c = "N" -> "n" [] c = "F" -> "f" [] c = "T" -> "t"
      [] c = "Y" -> "y" [] c = "A" -> "a" [] OTHER -> c

LowerText(t) == [i \in 1..Len(t) |-> ToLower(t[i])]

\* the number of digits of t from position i on
RECURSIVE DigitRun(_, _)
DigitRun(t, i) ==
    IF i <= Len(t) /\ IsDigit(t[i]) THEN 1 + DigitRun(t, i + 1) ELSE 0

\* the digits ds read into at most 8 significant digits: the mantissa m, the
\* number x of digits dropped behind it, and whether a dropped digit was not 0
RECURSIVE ReadDigits(_, _, _)
ReadDigits(ds, i, acc) ==
    IF i > Len(ds) THEN acc
    ELSE LET d == DigitVal(ds[i])
         IN  ReadDigits(ds, i + 1,
                 IF acc.m < 10000000
                   THEN [acc EXCEPT !.m = acc.m * 10 + d]
                   ELSE [acc EXCEPT !.x = acc.x + 1, !.sticky = acc.sticky \/ d # 0])

\* the value of exponent digits, saturating well beyond every format's range
RECURSIVE ReadExp(_, _, _)
ReadExp(ds, i, acc) ==
    IF i > Len(ds) THEN acc
    ELSE ReadExp(ds, i + 1, IF acc >= 10000 THEN acc ELSE acc * 10 + DigitVal(ds[i]))

ParseOk(v) == [ok |-> TRUE, val |-> v]

ParseErr == [ok |-> FALSE, val |-> FNaN]

ParseDecimal(s, b) ==
    LET nInt    == DigitRun(b, 1)
        hasDot  == nInt + 1 <= Len(b) /\ b[nInt + 1] = "."
        nFrac   == IF hasDot THEN DigitRun(b, nInt + 2) ELSE 0
        after   == nInt + (IF hasDot THEN 1 ELSE 0) + nFrac + 1
        hasExp  == after <= Len(b) /\ b[after] \in {"e", "E"}
        hasESgn == hasExp /\ after + 1 <= Len(b) /\ b[after + 1] \in {"+", "-"}
        eStart  == after + (IF hasESgn THEN 2 ELSE 1)
        nExp    == IF hasExp THEN DigitRun(b, eStart) ELSE 0
        digits  == SubSeq(b, 1, nInt) \o SubSeq(b, nInt + 2, nInt + 1 + nFrac)
        man     == ReadDigits(digits, 1, [m |-> 0, x |-> 0, sticky |-> FALSE])
        eAbs    == ReadExp(SubSeq(b, eStart, eStart + nExp - 1), 1, 0)
        eVal    == IF hasESgn /\ b[after + 1] = "-" THEN -eAbs ELSE eAbs
    IN  IF nInt + nFrac = 0 THEN ParseErr
        ELSE IF ~hasExp THEN
               (IF after = Len(b) + 1
                  THEN ParseOk(FRound(s, man.m, man.x - nFrac, man.sticky, F64))
                  ELSE ParseErr)
        ELSE IF nExp = 0 \/ eStart + nExp # Len(b) + 1 THEN ParseErr
        ELSE ParseOk(FRound(s, man.m, eVal + man.x - nFrac, man.sticky, F64))

ParseF64(t) ==
    LET hasSign == Len(t) > 0 /\ t[1] \in {"+", "-"}
        s       == IF hasSign /\ t[1] = "-" THEN -1 ELSE 1
        b       == IF hasSign THEN Tail(t) ELSE t
        low     == LowerText(b)
    IN  IF low = <<"i", "n", "f">> \/ low = <<"i", "n", "f", "i", "n", "i", "t", "y">>
          THEN ParseOk(FInf(s))
        ELSE IF low = <<"n", "a", "n">> THEN ParseOk(FNaN)
        ELSE ParseDecimal(s, b)

\* Result::unwrap_or
unwrap_or(r, dflt) == IF r.ok THEN r.val ELSE dflt

(***************************************************************************)
(* f64 Display (to_string, format!): plain decimal digits, never an        *)
(* exponent.                                                               *)
(***************************************************************************)
RECURSIVE DigitText(_)
DigitText(m) == IF m = 0 THEN <<>> ELSE DigitText(m \div 10) \o <<DigitChars[(m % 10) + 1]>>

\* faulty variant of Zeros: one zero short
ZerosShort(n) == [i \in 1..(n - 1) |-> "0"]

Zeros(n) == [i \in 1..n |-> "0"]

DisplayF64(a) ==
    IF a.k = "nan" THEN <<"N", "a", "N">>
    ELSE LET sign == IF a.s = -1 THEN <<"-">> ELSE <<>>
             ds   == DigitText(a.m)
         IN  IF a.k = "inf" THEN sign \o <<"i", "n", "f">>
             ELSE IF a.m = 0 THEN sign \o <<"0">>
             ELSE IF a.e >= 0 THEN sign \o ds \o Zeros(a.e)
             ELSE IF Len(ds) > -a.e
               THEN sign \o SubSeq(ds, 1, Len(ds) + a.e) \o <<".">>
                         \o SubSeq(ds, Len(ds) + a.e + 1, Len(ds))
             ELSE sign \o <<"0", ".">> \o Zeros(-a.e - Len(ds)) \o ds

(***************************************************************************)
(* Bounds and the external inputs the model draws from.                    *)
(***************************************************************************)
\* frames after the first that a behaviour runs
MaxFrames == 2

\* entities of one kind (camera widgets, named text inputs, materials,
\* PositionText texts) the world may hold
MaxEntities == 2

\* eye / target of the camera widget: setup's pose, a tilted pose off the
\* axes, a vertical look, and eye == target
SetupPose == [eye |-> ivec3(0, 10, 40), target |-> ivec3(0, 0, 0)]

Poses ==
    { SetupPose,
      [eye |-> ivec3(0, 5, 0), target |-> ivec3(0, 0, 0)],
      [eye |-> ivec3(1, 2, 3), target |-> ivec3(1, 2, 3)] }

\* Name::new("SpacetimeParamsM"), and a name without the tag
MassFieldName ==
    <<"S", "p", "a", "c", "e", "t", "i", "m", "e", "P", "a", "r", "a", "m", "s", "M">>

OtherName == <<"F", "o", "v">>

\* str::contains
Contains(t, pat) ==
    \E i \in 0..(Len(t) - Len(pat)) : SubSeq(t, i + 1, i + Len(pat)) = pat

(***************************************************************************)
(* Resources and their Default values.                                     *)
(***************************************************************************)
\* impl Default for SpacetimeParams: mass: 1e34
SpacetimeParamsDefault == [mass |-> FRound(1, 1, 34, FALSE, F64)]

\* #[derive(Default)] CamData
CamDataDefault ==
    [cam_pos |-> Vec3ZERO, cam_x |-> Vec3ZERO, cam_y |-> Vec3ZERO, cam_z |-> Vec3ZERO]

\* #[derive(Default)] WindowData
WindowDataDefault == [x |-> 0, y |-> 0, width |-> 0, height |-> 0]

\* the text a user may leave in the mass field
MassTexts ==
    { DisplayF64(SpacetimeParamsDefault.mass),
      <<"5", "e", "3", "0">>,
      <<"a", "b", "c">> }

\* largest absolute coordinate of the eyes SpecAxis draws
AxisRange == 1

AxisEyes ==
    {ivec3(x, y, z) : x \in -AxisRange..AxisRange, y \in -AxisRange..AxisRange,
                      z \in -AxisRange..AxisRange}

\* the poses SpecAxis draws: every eye of the grid looking at the origin, at
\* itself, and at (1, 1, 1)
AxisPoses ==
    Poses \cup {[eye |-> e, target |-> t] : e \in AxisEyes,
                                           t \in {Vec3ZERO, ivec3(1, 1, 1)}}
          \cup {[eye |-> e, target |-> e] : e \in AxisEyes}

\* every pose a camera widget takes in some specification
PoseDomain == Poses \cup AxisPoses

\* get_cam_axis of every pose, evaluated once
CamAxisOf == [p \in PoseDomain |-> get_cam_axis(p.eye, p.target)]

\* the OS window: its position and logical size
SetupWindow ==
    [position |-> [kind |-> "Automatic", x |-> 0, y |-> 0], width |-> 1280, height |-> 720]

Windows ==
    { SetupWindow,
      [position |-> [kind |-> "At", x |-> -8, y |-> 31], width |-> 800, height |-> 600] }

\* f32 values and f64 masses SpecUnits draws: negative, zero, one that
\* underflows when scaled, ordinary, huge, infinite
UnitVals ==
    { FInt(-3, F32), FZero(1), FRound(1, 1, -40, FALSE, F32), FInt(2, F32),
      FRound(1, 385, -1, FALSE, F32), FRound(1, 1, 38, FALSE, F32), FInf(1) }

UnitMasses ==
    { FInt(-1, F64), FZero(1), FRound(1, 1, -300, FALSE, F64),
      FRound(1, 5, 30, FALSE, F64), SpacetimeParamsDefault.mass,
      FRound(1, 1, 308, FALSE, F64), FInf(1) }

(***************************************************************************)
(* State.                                                                  *)
(***************************************************************************)
VARIABLES
    look,              \* the LookTransform components in the world: [eye, target]
    inputs,            \* the entities with (TextInputValue, Name): [name, value]
    materials,         \* Assets<SchwarzschildMaterial>: the uniforms the systems set
    texts,             \* the Text values of the entities with PositionText
    window,            \* the Window entity
    elapsed,           \* Time::elapsed_seconds of the current frame
    window_data,       \* Res<WindowData>
    cam_data,          \* Res<CamData>
    spacetime_params,  \* Res<SpacetimeParams>
    ran,               \* the Update systems that have run in this frame, in order
    frame,             \* the number of the current frame, from 0
    panicked,          \* the system whose panic ended the process, or ""
    prev,              \* the inputs and resources at the end of the previous frame
    probe              \* arguments and results of the unit converters (SpecUnits)

vars ==
    <<look, inputs, materials, texts, window, elapsed, window_data, cam_data,
      spacetime_params, ran, frame, panicked, prev, probe>>

world == <<look, inputs, window>>

NoPrev == [frame |-> -1]

NoProbe == [step |-> "off"]

\* the value Text::from_section("", ..) starts with
EmptyText == [kind |-> "empty"]

\* setup's material: cam_pos and axes of its own pose, time from the default mass
SetupMaterial ==
    [cam_pos |-> SetupPose.eye, cam_x |-> CamAxisOf[SetupPose][1],
     cam_y |-> CamAxisOf[SetupPose][2], cam_z |-> CamAxisOf[SetupPose][3],
     time |-> FCast(time_to_geo(FInt(0, F32), SpacetimeParamsDefault.mass), F32)]

\* main inserts the three default resources; setup (Startup) spawns the camera
\* widget, one material, the mass field holding mass.to_string(), and one
\* PositionText text
setup(lk, pr) ==
    /\ look = lk
    /\ inputs = <<[name |-> MassFieldName,
                   value |-> DisplayF64(SpacetimeParamsDefault.mass)]>>
    /\ materials = <<SetupMaterial>>
    /\ texts = <<EmptyText>>
    /\ window = SetupWindow
    /\ elapsed = 0
    /\ window_data = WindowDataDefault
    /\ cam_data = CamDataDefault
    /\ spacetime_params = SpacetimeParamsDefault
    /\ ran = <<>>
    /\ frame = 0
    /\ panicked = ""
    /\ prev = NoPrev
    /\ probe = pr

Init == setup(<<SetupPose>>, NoProbe)

(***************************************************************************)
(* The Update systems.  add_systems(Update, (focus, update_window_data,    *)
(* update_material, update_camera_data, update_position_text,              *)
(* update_spacetime_params)) registers them without .chain(), before() or  *)
(* after(): each runs once per frame, atomically with respect to the       *)
(* others that share its data, in an order the schedule does not fix.  A   *)
(* panic in a system ends the process.  (focus touches only the widgets'   *)
(* TextInputInactive and BorderColor and is left out.)                     *)
(***************************************************************************)
Systems ==
    { "update_window_data", "update_material", "update_camera_data",
      "update_position_text", "update_spacetime_params" }

HasRun(sys) == \E i \in 1..Len(ran) : ran[i] = sys

CanRun(sys) == panicked = "" /\ ~HasRun(sys)

\* `x as u32` of a whole f32: saturating at 0
AsU32(x) == IF x < 0 THEN 0 ELSE x

WindowStage(w) ==
    LET at == w.position.kind = "At"
    IN  [x |-> AsU32(IF at THEN w.position.x ELSE 0),
         y |-> AsU32(IF at THEN w.position.y ELSE 0),
         width |-> AsU32(w.width),
         height |-> AsU32(w.height)]

update_window_data ==
    /\ CanRun("update_window_data")
    /\ window_data' = WindowStage(window)
    /\ ran' = Append(ran, "update_window_data")
    /\ UNCHANGED <<look, inputs, materials, texts, window, elapsed, cam_data,
                   spacetime_params, frame, panicked, prev, probe>>

\* the material after update_material's five assignments
MaterialStage(mat, cd, sp, t) ==
    [mat EXCEPT !.cam_pos = cd.cam_pos, !.cam_x = cd.cam_x, !.cam_y = cd.cam_y,
                !.cam_z = cd.cam_z,
                !.time = FCast(time_to_geo(FInt(t, F32), sp.mass), F32)]

\* faulty variant of update_material: it uses its ResMut<CamData> to clear
\* the resource after copying it
update_material_clear ==
    /\ CanRun("update_material")
    /\ IF materials = <<>>
         THEN /\ panicked' = "update_material"
              /\ UNCHANGED <<materials, ran, cam_data>>
         ELSE /\ materials' = [materials EXCEPT
                     ![1] = MaterialStage(@, cam_data, spacetime_params, elapsed)]
              /\ cam_data' = CamDataDefault
              /\ ran' = Append(ran, "update_material")
              /\ UNCHANGED panicked
    /\ UNCHANGED <<look, inputs, texts, window, elapsed, window_data,
                   spacetime_params, frame, prev, probe>>

update_material ==
    /\ CanRun("update_material")
    /\ IF materials = <<>>
         THEN \* materials.ids().next().expect(..)
              /\ panicked' = "update_material"
              /\ UNCHANGED <<materials, ran>>
         ELSE /\ materials' = [materials EXCEPT
                     ![1] = MaterialStage(@, cam_data, spacetime_params, elapsed)]
              /\ ran' = Append(ran, "update_material")
              /\ UNCHANGED panicked
    /\ UNCHANGED <<look, inputs, texts, window, elapsed, window_data, cam_data,
                   spacetime_params, frame, prev, probe>>

\* faulty variant of CameraStage: cam_pos accumulates the eye
CameraStageDrift(lk, cd) ==
    IF Len(lk) = 1
      THEN [cam_pos |-> VAdd(cd.cam_pos, lk[1].eye), cam_x |-> CamAxisOf[lk[1]][1],
            cam_y |-> CamAxisOf[lk[1]][2], cam_z |-> CamAxisOf[lk[1]][3]]
      ELSE cd

\* faulty variant of CameraStage: only cam_pos is written
CameraStagePartial(lk, cd) ==
    IF Len(lk) = 1 THEN [cd EXCEPT !.cam_pos = lk[1].eye] ELSE cd

\* CamData after update_camera_data: get_single_mut is Ok for exactly one widget
CameraStage(lk, cd) ==
    IF Len(lk) = 1
      THEN LET axis == CamAxisOf[lk[1]]
           IN  [cam_pos |-> lk[1].eye, cam_x |-> axis[1], cam_y |-> axis[2],
                cam_z |-> axis[3]]
      ELSE cd

update_camera_data ==
    /\ CanRun("update_camera_data")
    /\ cam_data' = CameraStage(look, cam_data)
    /\ ran' = Append(ran, "update_camera_data")
    /\ UNCHANGED <<look, inputs, materials, texts, window, elapsed, window_data,
                   spacetime_params, frame, panicked, prev, probe>>

\* an integer-valued component as an integer
SToInt(x) == IF x = SZero THEN 0 ELSE (CHOOSE t \in x : x = {t} /\ t.k = 1 /\ t.d = 1).n

\* Vec3::length of a vector of whole components, as f32
length(a) == FSqrtInt(SToInt(VDot(a, a)), F32)

\* the three numbers format! interpolates into the text; proper_length keeps
\* the arguments of its sqrt / ln expression
PositionTextStage(cd, sp) ==
    LET rs      == length_to_si(FInt(2, F32), sp.mass)
        r       == length(cd.cam_pos)
        delta_r == length_to_si(FSub(r, FInt(2, F32), F32), sp.mass)
    IN  [kind |-> "position", rs |-> rs, delta_r |-> delta_r,
         proper_length |-> [r |-> r, mass |-> sp.mass]]

\* faulty variant of update_position_text: without exactly one PositionText
\* text the system returns without writing
update_position_text_skip ==
    /\ CanRun("update_position_text")
    /\ texts' = IF Len(texts) = 1
                  THEN <<PositionTextStage(cam_data, spacetime_params)>>
                  ELSE texts
    /\ ran' = Append(ran, "update_position_text")
    /\ UNCHANGED <<look, inputs, materials, window, elapsed, window_data, cam_data,
                   spacetime_params, frame, panicked, prev, probe>>

update_position_text ==
    /\ CanRun("update_position_text")
    /\ IF Len(texts) # 1
         THEN \* query.get_single_mut().expect(..)
              /\ panicked' = "update_position_text"
              /\ UNCHANGED <<texts, ran>>
         ELSE /\ texts' = <<PositionTextStage(cam_data, spacetime_params)>>
              /\ ran' = Append(ran, "update_position_text")
              /\ UNCHANGED panicked
    /\ UNCHANGED <<look, inputs, materials, window, elapsed, window_data, cam_data,
                   spacetime_params, frame, prev, probe>>

\* text_input.0.parse().unwrap_or(0.)
ParseMass(text) == unwrap_or(ParseF64(text), FZero(1))

\* ParseMass of every text a field holds in some specification, evaluated once
TextDomain == MassTexts

ParsedMassOf == [t \in TextDomain |-> ParseMass(t)]

\* faulty variant of SpacetimeParamsStage: a text that does not parse leaves
\* the mass as it was
RECURSIVE SpacetimeParamsStageKeep(_, _, _)
SpacetimeParamsStageKeep(ins, i, sp) ==
    IF i > Len(ins) THEN sp
    ELSE SpacetimeParamsStageKeep(ins, i + 1,
             IF Contains(ins[i].name, MassFieldName) /\ ParseF64(ins[i].value).ok
               THEN [sp EXCEPT !.mass = ParsedMassOf[ins[i].value]]
               ELSE sp)

\* SpacetimeParams after the loop over the query's items i..Len(ins)
RECURSIVE SpacetimeParamsStage(_, _, _)
SpacetimeParamsStage(ins, i, sp) ==
    IF i > Len(ins) THEN sp
    ELSE SpacetimeParamsStage(ins, i + 1,
             IF Contains(ins[i].name, MassFieldName)
               THEN [sp EXCEPT !.mass = ParsedMassOf[ins[i].value]]
               ELSE sp)

update_spacetime_params ==
    /\ CanRun("update_spacetime_params")
    /\ spacetime_params' = SpacetimeParamsStage(inputs, 1, spacetime_params)
    /\ ran' = Append(ran, "update_spacetime_params")
    /\ UNCHANGED <<look, inputs, materials, texts, window, elapsed, window_data,
                   cam_data, frame, panicked, prev, probe>>

(***************************************************************************)
(* Between two frames: the clock advances and the other plugins (camera    *)
(* controller, text input, window, asset and entity bookkeeping) change at *)
(* most one thing of the world the systems read.                           *)
(***************************************************************************)
FrameDone == panicked = "" /\ Len(ran) = Cardinality(Systems)

Tick ==
    /\ FrameDone
    /\ frame < MaxFrames
    /\ frame' = frame + 1
    /\ elapsed' = elapsed + 1
    /\ ran' = <<>>
    /\ prev' = [frame |-> frame, look |-> look, inputs |-> inputs, window |-> window,
                window_data |-> window_data, cam_data |-> cam_data,
                spacetime_params |-> spacetime_params]
    /\ UNCHANGED <<window_data, cam_data, spacetime_params, panicked, probe>>

Idle ==
    /\ Tick
    /\ UNCHANGED <<look, inputs, materials, texts, window>>

MoveCamera ==
    /\ Tick
    /\ look # <<>>
    /\ \E p \in Poses \ {look[1]} : look' = [look EXCEPT ![1] = p]
    /\ UNCHANGED <<inputs, materials, texts, window>>

SpawnCamera ==
    /\ Tick
    /\ Len(look) < MaxEntities
    /\ look' = Append(look, SetupPose)
    /\ UNCHANGED <<inputs, materials, texts, window>>

DespawnCamera ==
    /\ Tick
    /\ look # <<>>
    /\ look' = SubSeq(look, 1, Len(look) - 1)
    /\ UNCHANGED <<inputs, materials, texts, window>>

EditText ==
    /\ Tick
    /\ \E i \in 1..Len(inputs) : \E t \in MassTexts \ {inputs[i].value} :
           inputs' = [inputs EXCEPT ![i].value = t]
    /\ UNCHANGED <<look, materials, texts, window>>

SpawnInput ==
    /\ Tick
    /\ Len(inputs) < MaxEntities
    /\ \E n \in {MassFieldName, OtherName} : \E t \in MassTexts :
           inputs' = Append(inputs, [name |-> n, value |-> t])
    /\ UNCHANGED <<look, materials, texts, window>>

DespawnInput ==
    /\ Tick
    /\ inputs # <<>>
    /\ inputs' = Tail(inputs)
    /\ UNCHANGED <<look, materials, texts, window>>

SpawnMaterial ==
    /\ Tick
    /\ Len(materials) < MaxEntities
    /\ materials' = Append(materials, SetupMaterial)
    /\ UNCHANGED <<look, inputs, texts, window>>

DespawnMaterial ==
    /\ Tick
    /\ materials # <<>>
    /\ materials' = Tail(materials)
    /\ UNCHANGED <<look, inputs, texts, window>>

SpawnText ==
    /\ Tick
    /\ Len(texts) < MaxEntities
    /\ texts' = Append(texts, EmptyText)
    /\ UNCHANGED <<look, inputs, materials, window>>

DespawnText ==
    /\ Tick
    /\ texts # <<>>
    /\ texts' = Tail(texts)
    /\ UNCHANGED <<look, inputs, materials, window>>

MoveWindow ==
    /\ Tick
    /\ \E w \in Windows \ {window} : window' = w
    /\ UNCHANGED <<look, inputs, materials, texts>>

Next ==
    \/ update_window_data
    \/ update_material
    \/ update_camera_data
    \/ update_position_text
    \/ update_spacetime_params
    \/ Idle
    \/ MoveCamera
    \/ SpawnCamera
    \/ DespawnCamera
    \/ EditText
    \/ SpawnInput
    \/ DespawnInput
    \/ SpawnMaterial
    \/ DespawnMaterial
    \/ SpawnText
    \/ DespawnText
    \/ MoveWindow

Spec == Init /\ [][Next]_vars

(***************************************************************************)
(* SpecAxis: one frame's update_camera_data on every pose of AxisPoses.    *)
(***************************************************************************)
InitAxis == \E p \in AxisPoses : setup(<<p>>, NoProbe)

NextAxis == update_camera_data

SpecAxis == InitAxis /\ [][NextAxis]_vars

(***************************************************************************)
(* SpecUnits: length_to_si applied to two values and two masses.           *)
(***************************************************************************)
InitUnits ==
    \E v1 \in UnitVals, v2 \in UnitVals, m1 \in UnitMasses, m2 \in UnitMasses :
        setup(<<SetupPose>>, [step |-> "args", v1 |-> v1, v2 |-> v2, m1 |-> m1, m2 |-> m2])

ApplyLengthToSi ==
    /\ probe.step = "args"
    /\ probe' = [step |-> "done", v1 |-> probe.v1, v2 |-> probe.v2,
                 m1 |-> probe.m1, m2 |-> probe.m2,
                 v1m1 |-> length_to_si(probe.v1, probe.m1),
                 v2m1 |-> length_to_si(probe.v2, probe.m1),
                 v1m2 |-> length_to_si(probe.v1, probe.m2)]
    /\ UNCHANGED <<look, inputs, materials, texts, window, elapsed, window_data,
                   cam_data, spacetime_params, ran, frame, panicked, prev>>

NextUnits == ApplyLengthToSi

SpecUnits == InitUnits /\ [][NextUnits]_vars

(***************************************************************************)
(* Properties.                                                             *)
(***************************************************************************)
\* the order window -> camera -> spacetime parameters -> export -> display
StageOrder ==
    << "update_window_data", "update_camera_data", "update_spacetime_params",
       "update_material", "update_position_text" >>

\* the text inputs update_spacetime_params assigns from, and the last of them
Tagged == {i \in 1..Len(inputs) : Contains(inputs[i].name, MassFieldName)}

LastTagged == CHOOSE i \in Tagged : \A j \in Tagged : j <= i

\* CamData and SpacetimeParams as this frame's own eye/target and mass-field
\* text give them
FreshCamData ==
    [cam_pos |-> look[1].eye, cam_x |-> CamAxisOf[look[1]][1],
     cam_y |-> CamAxisOf[look[1]][2], cam_z |-> CamAxisOf[look[1]][3]]

FreshParams == [mass |-> ParsedMassOf[inputs[LastTagged].value]]

\* C1: in every frame the stages that have run so far are an initial part of
\* the fixed order window, camera, spacetime parameters, export, display: each
\* runs once, and neither export nor display runs before that frame's camera
\* and spacetime-parameter stages.  (The schedule of main does not fix an
\* order, so this fails.)
C1_FixedOrder == \A i \in 1..Len(ran) : ran[i] = StageOrder[i]

\* C2: in a frame where one camera widget and a mass field exist, the
\* material update_material has written and the text update_position_text
\* has written hold the values computed from that frame's own eye/target and
\* mass-field text, never those of the previous frame or the default
\* records.  (Fails: either system may run before the frame's
\* update_camera_data or update_spacetime_params.)
C2_FreshSnapshot ==
    (Len(look) = 1 /\ Tagged # {}) =>
        /\ HasRun("update_material") =>
               materials[1] = MaterialStage(materials[1], FreshCamData, FreshParams, elapsed)
        /\ HasRun("update_position_text") =>
               texts[1] = PositionTextStage(FreshCamData, FreshParams)

\* C3: once update_spacetime_params has run with a mass-tagged field present,
\* mass is the f64 its text parses to ("5e30" gives 5e30) or 0 when the text
\* does not parse ("abc"), whatever mass was before; the system never panics.
C3_MassFromText ==
    /\ panicked # "update_spacetime_params"
    /\ (HasRun("update_spacetime_params") /\ Tagged # {}) =>
           LET t == inputs[LastTagged].value
               r == ParseF64(t)
           IN  /\ spacetime_params.mass = (IF r.ok THEN r.val ELSE FZero(1))
               /\ t = <<"5", "e", "3", "0">> => spacetime_params.mass = FFin(1, 5, 30)
               /\ t = <<"a", "b", "c">> => spacetime_params.mass = FZero(1)

\* the field reads "abc", mass is 0, and the frame before left mass at 5e30
C3_Witness ==
    /\ HasRun("update_spacetime_params")
    /\ inputs = <<[name |-> MassFieldName, value |-> <<"a", "b", "c">>]>>
    /\ spacetime_params.mass = FZero(1)
    /\ prev.frame >= 0
    /\ prev.spacetime_params.mass = FFin(1, 5, 30)

\* C4: a frame that ends with the window, the camera eye/target and the text
\* inputs as they were at the end of the previous frame ends with CamData and
\* SpacetimeParams equal to those the previous frame ended with.
C4_Idempotent ==
    (FrameDone /\ prev.frame >= 0 /\ prev.look = look /\ prev.inputs = inputs
       /\ prev.window = window) =>
        /\ cam_data = prev.cam_data
        /\ spacetime_params = prev.spacetime_params

\* a third frame with unchanged inputs, the resources holding computed values
C4_Witness ==
    /\ FrameDone
    /\ frame >= 2
    /\ prev.look = look /\ prev.inputs = inputs /\ prev.window = window
    /\ look = <<SetupPose>>
    /\ cam_data = FreshCamData
    /\ cam_data # CamDataDefault
    /\ spacetime_params = prev.spacetime_params

\* C5: a step of update_material taken with no material, and a step of
\* update_position_text taken without exactly one PositionText text, halts
\* the process and writes nothing: no material, text or resource changes and
\* the system does not count as run; a halted process takes no further step.
C5_MissingSingletonHalts ==
    [][ /\ panicked = ""
        /\ (update_material /\ materials = <<>>) =>
               /\ panicked' = "update_material"
               /\ UNCHANGED <<materials, texts, window_data, cam_data,
                              spacetime_params, ran>>
        /\ (update_position_text /\ Len(texts) # 1) =>
               /\ panicked' = "update_position_text"
               /\ UNCHANGED <<materials, texts, window_data, cam_data,
                              spacetime_params, ran>>
      ]_vars

\* update_position_text has halted a later frame that holds two texts
C5_Witness ==
    /\ panicked = "update_position_text"
    /\ Len(texts) = 2
    /\ ~HasRun("update_position_text")
    /\ frame >= 1

\* C6: after update_camera_data on a widget with eye = target, the three axes
\* get_cam_axis returned are all (0, 0, 0) and nothing panicked.
C6_EyeEqualsTarget ==
    (HasRun("update_camera_data") /\ Len(look) = 1 /\ look[1].eye = look[1].target) =>
        /\ panicked = ""
        /\ get_cam_axis(look[1].eye, look[1].target) = <<Vec3ZERO, Vec3ZERO, Vec3ZERO>>
        /\ cam_data.cam_x = Vec3ZERO
        /\ cam_data.cam_y = Vec3ZERO
        /\ cam_data.cam_z = Vec3ZERO

\* eye = target away from the origin
C6_Witness ==
    /\ HasRun("update_camera_data")
    /\ Len(look) = 1
    /\ look[1].eye = look[1].target
    /\ look[1].eye = ivec3(1, 2, 3)
    /\ cam_data.cam_pos = ivec3(1, 2, 3)
    /\ cam_data.cam_z = Vec3ZERO

\* target - eye
ViewDirection == VSub(look[1].target, look[1].eye)

Vertical(d) == d # Vec3ZERO /\ d.x = SZero /\ d.z = SZero

\* C7: after update_camera_data on a widget whose view direction is neither
\* zero nor vertical, right, up and forward each have length 1, their pairwise
\* dot products are 0, and right x up = -forward (the same handedness for
\* every such pose).
C7_OrthonormalFrame ==
    (HasRun("update_camera_data") /\ Len(look) = 1 /\ ViewDirection # Vec3ZERO
       /\ ~Vertical(ViewDirection)) =>
        /\ VDot(cam_data.cam_x, cam_data.cam_x) = SInt(1)
        /\ VDot(cam_data.cam_y, cam_data.cam_y) = SInt(1)
        /\ VDot(cam_data.cam_z, cam_data.cam_z) = SInt(1)
        /\ VDot(cam_data.cam_x, cam_data.cam_y) = SZero
        /\ VDot(cam_data.cam_x, cam_data.cam_z) = SZero
        /\ VDot(cam_data.cam_y, cam_data.cam_z) = SZero
        /\ VCross(cam_data.cam_x, cam_data.cam_y) = VScale(cam_data.cam_z, SInt(-1))

\* setup's pose: right is +X, up and forward are tilted unit vectors
C7_Witness ==
    /\ HasRun("update_camera_data")
    /\ look = <<SetupPose>>
    /\ cam_data.cam_x = ivec3(1, 0, 0)
    /\ cam_data.cam_y = vec3(SZero, {Term(4, 17, 17)}, {Term(-1, 17, 17)})
    /\ cam_data.cam_z = vec3(SZero, {Term(-1, 17, 17)}, {Term(-4, 17, 17)})

Finite(a) == a.k = "fin"

Positive(a) == FLt(FZero(1), a)

\* C8 as amended: for finite v1 < v2 and finite m > 0,
\* length_to_si(v1, m) <= length_to_si(v2, m); for finite v > 0 and finite
\* m1 < m2, length_to_si(v, m1) <= length_to_si(v, m2); and length_to_si(v, m)
\* is m * ((v * G / (c * c)) as f64).
C8_MonotoneFinite ==
    probe.step = "done" =>
        /\ (Finite(probe.v1) /\ Finite(probe.v2) /\ Finite(probe.m1)
              /\ Positive(probe.m1) /\ FLt(probe.v1, probe.v2)) =>
               FLe(probe.v1m1, probe.v2m1)
        /\ (Finite(probe.v1) /\ Positive(probe.v1) /\ Finite(probe.m1)
              /\ Finite(probe.m2) /\ FLt(probe.m1, probe.m2)) =>
               FLe(probe.v1m1, probe.v1m2)
        /\ probe.v1m1 =
               FMul(probe.m1,
                    FCast(FDiv(FMul(probe.v1, NEWTON_CONSTANT, F32),
                               FMul(LIGHT_SPEED, LIGHT_SPEED, F32), F32), F64),
                    F64)

\* C8 as stated: for every m > 0, v1 < v2 gives
\* length_to_si(v1, m) <= length_to_si(v2, m), and for every v > 0, m1 < m2
\* gives length_to_si(v, m1) <= length_to_si(v, m2).  (Fails at an infinite
\* mass or value, where the product with 0 is NaN.)
C8_Monotone ==
    probe.step = "done" =>
        /\ (Positive(probe.m1) /\ FLt(probe.v1, probe.v2)) =>
               FLe(probe.v1m1, probe.v2m1)
        /\ (Positive(probe.v1) /\ FLt(probe.m1, probe.m2)) =>
               FLe(probe.v1m1, probe.v1m2)

\* 2 and 38.5 at the default mass: 1.48e7 m and strictly more
C8_Witness ==
    /\ probe.step = "done"
    /\ probe.v1 = FInt(2, F32)
    /\ probe.v2 = FRound(1, 385, -1, FALSE, F32)
    /\ probe.m1 = SpacetimeParamsDefault.mass
    /\ probe.v1m1 = FFin(1, 148, 5)
    /\ FLt(probe.v1m1, probe.v2m1)

\* C9: after update_camera_data on a widget looking straight up or down,
\* CamData holds right = (0, 0, 0), up = (0, 0, 0) and the unit vertical
\* forward.  (Fails: up is half of forward.)
C9_VerticalView ==
    (HasRun("update_camera_data") /\ Len(look) = 1 /\ Vertical(ViewDirection)) =>
        /\ cam_data.cam_pos = look[1].eye
        /\ cam_data.cam_x = Vec3ZERO
        /\ cam_data.cam_y = Vec3ZERO
        /\ cam_data.cam_z \in {ivec3(0, 1, 0), ivec3(0, -1, 0)}

\* C10: the step in which update_camera_data runs never panics; without
\* exactly one camera widget it leaves CamData as it was, and with one it
\* sets the four fields to eye and the three axes of get_cam_axis(eye, target).
C10_CameraStage ==
    [][ (~HasRun("update_camera_data") /\ HasRun("update_camera_data")') =>
            /\ panicked' = ""
            /\ Len(look) = 1 => cam_data' = FreshCamData
            /\ Len(look) # 1 => cam_data' = cam_data
      ]_vars

\* a completed frame without a camera widget: CamData keeps setup's pose
C10_Witness ==
    /\ FrameDone
    /\ frame >= 1
    /\ look = <<>>
    /\ cam_data.cam_pos = SetupPose.eye
    /\ cam_data.cam_x = ivec3(1, 0, 0)

\* C11: a step changes WindowData only when update_window_data runs in it,
\* CamData only when update_camera_data runs in it and SpacetimeParams only
\* when update_spacetime_params runs in it; the steps in which
\* update_material or update_position_text run or halt change none of them.
C11_SingleWriter ==
    [][ /\ window_data' # window_data =>
               ~HasRun("update_window_data") /\ HasRun("update_window_data")'
        /\ cam_data' # cam_data =>
               ~HasRun("update_camera_data") /\ HasRun("update_camera_data")'
        /\ spacetime_params' # spacetime_params =>
               ~HasRun("update_spacetime_params") /\ HasRun("update_spacetime_params")'
        /\ (update_material \/ update_position_text) =>
               UNCHANGED <<window_data, cam_data, spacetime_params>>
      ]_vars

\* export and display have run last in a frame whose three records hold
\* computed values: they are still there
C11_Witness ==
    /\ FrameDone
    /\ ran[4] = "update_material"
    /\ ran[5] = "update_position_text"
    /\ window_data = WindowStage(window)
    /\ window_data # WindowDataDefault
    /\ Len(look) = 1
    /\ cam_data = FreshCamData
    /\ spacetime_params.mass = FFin(1, 5, 30)

\* the text setup puts in the mass field: the default mass's to_string()
DefaultMassText == DisplayF64(SpacetimeParamsDefault.mass)

\* no mass-tagged field holds anything but the text setup gave it
Untouched == \A i \in Tagged : inputs[i].value = DefaultMassText

\* C12: in a run where the mass field's text is never edited, mass is the
\* default 1e34 in every state (the field starts with the decimal string of
\* the default, and parsing that string gives 1e34 again); and a step in
\* which update_spacetime_params runs with no mass-tagged input leaves
\* SpacetimeParams as it was.
C12_DefaultMassKept ==
    /\ ([]Untouched) => [](spacetime_params.mass = FFin(1, 1, 34))
    /\ [][ (~HasRun("update_spacetime_params") /\ HasRun("update_spacetime_params")'
              /\ Tagged = {}) =>
               spacetime_params' = spacetime_params
         ]_vars

\* the third frame is complete, the mass field still reads the default's
\* string as it did a frame ago, and mass is 1e34
C12_Witness ==
    /\ FrameDone
    /\ frame >= 2
    /\ inputs = <<[name |-> MassFieldName, value |-> DefaultMassText]>>
    /\ prev.inputs = inputs
    /\ prev.spacetime_params = SpacetimeParamsDefault
    /\ spacetime_params.mass = FFin(1, 1, 34)
    /\ ParseF64(DefaultMassText) = ParseOk(FFin(1, 1, 34))

=============================================================================
